---- MODULE Spec2Model ----
(***************************************************************************)
(* Model of thrust/detail/integer_math.h (clz, is_power_of_2, log2,        *)
(* log2_ri, is_odd) and of thrust/detail/execute_with_allocator_fwd.h      *)
(* (execute_with_allocator: constructors, get_allocator, after,            *)
(* rebind_after).                                                          *)
(*                                                                         *)
(* Machine integers are carried as mathematical integers of magnitude     *)
(* below 2^31: arguments of the 32-bit types are sampled below 2^31 and    *)
(* 64-bit instantiations are not modelled.                                 *)
(***************************************************************************)
EXTENDS Integers, Sequences, FiniteSets, TLC

VARIABLES call, supers, ext, policies, last

vars == <<call, supers, ext, policies, last>>

(***************************************************************************)
(* Bounds.                                                                 *)
(***************************************************************************)
\* inputs -MaxX .. MaxX are enumerated exhaustively (covers every 8-bit value)
MaxX == 260
\* decorator values alive at once
MaxPolicies == 3

(***************************************************************************)
(* Integer types the templates are instantiated with.                      *)
(***************************************************************************)
UnsignedChar  == [name |-> "unsigned char",  signed |-> FALSE, bits |-> 8]
SignedChar  == [name |-> "signed char",    signed |-> TRUE,  bits |-> 8]
UnsignedShort == [name |-> "unsigned short", signed |-> FALSE, bits |-> 16]
ShortInt  == [name |-> "short",          signed |-> TRUE,  bits |-> 16]
SignedInt    == [name |-> "int",            signed |-> TRUE,  bits |-> 32]
UnsignedInt   == [name |-> "unsigned int",   signed |-> FALSE, bits |-> 32]

IntegerTypes == {UnsignedChar, SignedChar, UnsignedShort, ShortInt, SignedInt, UnsignedInt}

\* std::numeric_limits<Integer>::digits: the number of non-sign bits
Digits(T) == IF T.signed THEN T.bits - 1 ELSE T.bits

\* is v a value of type T (for the 32-bit types: of the part below 2^31)
InRange(T, v) ==
  IF T.bits = 32
    THEN (T.signed \/ v >= 0)
    ELSE IF T.signed THEN -(2^(T.bits - 1)) <= v /\ v < 2^(T.bits - 1)
                     ELSE 0 <= v /\ v < 2^T.bits

\* the sampled values: a dense window around 0 and the neighbourhood of
\* every power of two (INT_MIN itself is left out: x - 1 is not representable)
Candidates ==
  (-MaxX .. MaxX)
  \cup UNION { {2^k - 1, 2^k, 2^k + 1, -(2^k), -(2^k) - 1, 1 - 2^k} : k \in 0..30 }

Inputs(T) == { v \in Candidates : InRange(T, v) }

\* inputs of log2 / log2_ri: log2(0u) is 2^32 - 1 for unsigned int, beyond the
\* integers carried here; the narrower unsigned types cover that case
LogInputs(T) == { v \in Inputs(T) : ~(T = UnsignedInt /\ v = 0) }

(***************************************************************************)
(* Machine arithmetic.                                                     *)
(***************************************************************************)
\* bit i of the two's complement pattern of v (|v| < 2^31, so bits 31 and up
\* are copies of the sign)
Bit(v, i) == IF i >= 31 THEN (IF v < 0 THEN 1 ELSE 0) ELSE (v \div (2^i)) % 2

RECURSIVE BitAnd(_, _)
\* a & b on two's complement patterns
BitAnd(a, b) ==
  IF a = 0 \/ b = 0 THEN 0
  ELSE IF a = -1 THEN b
  ELSE IF b = -1 THEN a
  ELSE 2 * BitAnd(a \div 2, b \div 2) + (a % 2) * (b % 2)

\* outcomes of the int shift 1 << i for i >= 32 (shift count not less than the
\* width of int: undefined): 0 where the hardware clamps the count, 1 where
\* it masks the count to five bits
UBShift == {0, 1}

\* the int expression 1 << i
Shl1(i, ub) ==
  IF i <= 30 THEN 2^i
  ELSE IF i = 31 THEN -(2^30) - 2^30
  ELSE ub

\* conversion of an int / promoted result to the return type Integer
ToInteger(T, v) ==
  IF T.signed \/ T.bits = 32 THEN v ELSE v % (2^T.bits)

(***************************************************************************)
(* integer_math.h                                                          *)
(***************************************************************************)
RECURSIVE ClzLoop(_, _, _, _)
ClzLoop(T, x, ub, i) ==
  IF i < 0 THEN ToInteger(T, Digits(T) + 1)
  ELSE IF BitAnd(Shl1(i, ub), x) # 0 THEN ToInteger(T, Digits(T) - i)
  ELSE ClzLoop(T, x, ub, i - 1)

RECURSIVE ClzLoopNoSentinel(_, _, _, _)
ClzLoopNoSentinel(T, x, ub, i) ==
  IF i < 0 THEN ToInteger(T, Digits(T))
  ELSE IF BitAnd(Shl1(i, ub), x) # 0 THEN ToInteger(T, Digits(T) - i)
  ELSE ClzLoopNoSentinel(T, x, ub, i - 1)

\* clz with the fall-through returning digits instead of digits + 1
clz_no_sentinel(T, x, ub) == ClzLoopNoSentinel(T, x, ub, Digits(T))

clz(T, x, ub) == ClzLoop(T, x, ub, Digits(T))

\* x - 1 in the type of the expression: int for the types narrower than int
\* and for int; unsigned int wraps at 0 to the all-ones pattern, carried as -1
Minus1(T, x) == x - 1

\* is_power_of_2 rejecting 0
is_power_of_2_nonzero(T, x) == x # 0 /\ 0 = BitAnd(x, Minus1(T, x))

is_power_of_2(T, x) == 0 = BitAnd(x, Minus1(T, x))

log2(T, x, ub) == ToInteger(T, Digits(T) - clz(T, x, ub))

log2_ri(T, x, ub) ==
  LET result == log2(T, x, ub)
  IN  IF ~is_power_of_2(T, x) THEN ToInteger(T, result + 1) ELSE result

is_odd(T, x) == BitAnd(1, x) # 0

(***************************************************************************)
(* execute_with_allocator_fwd.h                                            *)
(*                                                                         *)
(* A decorator value is a record                                           *)
(*   kind  : "alloc" (execute_with_allocator) or "alloc_deps"              *)
(*           (execute_with_allocator_and_dependencies)                     *)
(*   super : the state of its BaseSystem base subobject                    *)
(*   ref   : TRUE when the Allocator template argument is a reference type *)
(*   loc   : the caller's allocator object member alloc is bound to (ref)  *)
(*   val   : the state of the embedded member alloc (not ref)              *)
(*   deps  : the captured dependencies, in order                           *)
(***************************************************************************)
\* states of a base policy; DefaultSuper is the default-constructed one
SuperStates == {"default", "tuned"}
DefaultSuper == "default"

\* the caller's base policy objects and their initial states
Supers == {"P"}
InitialSupers == [s \in Supers |-> "tuned"]

\* the caller's allocator objects, the states an allocator can be in
Allocators == {"A1", "A2"}
AllocStates == {"s0", "s1"}
InitialAllocators == [a \in Allocators |-> IF a = "A1" THEN "s0" ELSE "s1"]

\* dependency-convertible values the caller passes (move-only: a value is
\* passed at most once in a call), and the packs and tuples of them
DepValues == {"e1", "e2"}
DepInputs ==
  { in \in UNION { [1..n -> DepValues] : n \in 0..Cardinality(DepValues) } :
      \A j, k \in DOMAIN in : j # k => in[j] # in[k] }

\* the member alloc of a decorator: a reference or an embedded value
AllocMember(p) == [ref |-> p.ref, loc |-> p.loc, val |-> p.val]

\* the allocator get_allocator() of p refers to, read in store e
AllocOf(p, e) == IF p.ref THEN e[p.loc] ELSE p.val

\* Allocator alloc_ : the constructor argument initialised from the caller's
\* allocator a, a reference to it or a copy of its state
AllocArg(a, ref, e) ==
  [ref |-> ref, loc |-> IF ref THEN a ELSE "none", val |-> IF ref THEN "none" ELSE e[a]]

\* execute_with_allocator(super, alloc_) with alloc left default-initialised
execute_with_allocator_uninit(super, alloc_) ==
  [kind |-> "alloc", super |-> super, ref |-> FALSE, loc |-> "none",
   val |-> "s0", deps |-> <<>>]

\* execute_with_allocator(super_t const& super, Allocator alloc_)
execute_with_allocator(super, alloc_) ==
  [kind |-> "alloc", super |-> super, ref |-> alloc_.ref, loc |-> alloc_.loc,
   val |-> alloc_.val, deps |-> <<>>]

\* execute_with_allocator(Allocator alloc_): the base is default-constructed
execute_with_allocator_1(alloc_) ==
  [kind |-> "alloc", super |-> DefaultSuper, ref |-> alloc_.ref, loc |-> alloc_.loc,
   val |-> alloc_.val, deps |-> <<>>]

\* capture_as_dependency(d): the dependency handle of one value
capture_as_dependency(d) == [handle |-> d]

\* capture_as_dependency(tuple): the tuple of the handles, element by element
capture_as_dependency_tuple(t) == [k \in DOMAIN t |-> capture_as_dependency(t[k])]

\* execute_with_allocator_and_dependencies(alloc, deps...): stores the
\* allocator and the dependencies; the base is default-constructed
execute_with_allocator_and_dependencies(alloc_, deps) ==
  [kind |-> "alloc_deps", super |-> DefaultSuper, ref |-> alloc_.ref,
   loc |-> alloc_.loc, val |-> alloc_.val, deps |-> deps]

\* order of a pack expansion written back to front
Reversed(in) == [k \in DOMAIN in |-> in[Len(in) + 1 - k]]

\* after(deps...) expanding the pack in reverse
after_reversed(p, in) ==
  execute_with_allocator_and_dependencies(
    AllocMember(p), [k \in DOMAIN in |-> capture_as_dependency(Reversed(in)[k])])

\* after(Dependencies&&... dependencies) const
after(p, in) ==
  execute_with_allocator_and_dependencies(
    AllocMember(p), [k \in DOMAIN in |-> capture_as_dependency(in[k])])

\* after(tuple&) keeping only the first element of the tuple
after_tuple_first_only(p, t) ==
  execute_with_allocator_and_dependencies(
    AllocMember(p), capture_as_dependency_tuple(SubSeq(t, 1, IF Len(t) > 0 THEN 1 ELSE 0)))

\* after(std::tuple<Dependencies...>& dependencies) const
after_tuple(p, t) ==
  execute_with_allocator_and_dependencies(
    AllocMember(p), capture_as_dependency_tuple(t))

\* after(std::tuple<Dependencies...>&& dependencies) const
after_tuple_rv(p, t) ==
  execute_with_allocator_and_dependencies(
    AllocMember(p), capture_as_dependency_tuple(t))

\* rebind_after(deps...) dropping the dependencies
rebind_after_no_deps(p, in) ==
  execute_with_allocator_and_dependencies(AllocMember(p), <<>>)

\* rebind_after(Dependencies&&... dependencies) const
rebind_after(p, in) ==
  execute_with_allocator_and_dependencies(
    AllocMember(p), [k \in DOMAIN in |-> capture_as_dependency(in[k])])

\* rebind_after(std::tuple<Dependencies...>& dependencies) const
rebind_after_tuple(p, t) ==
  execute_with_allocator_and_dependencies(
    AllocMember(p), capture_as_dependency_tuple(t))

\* rebind_after(std::tuple<Dependencies...>&& dependencies) const
rebind_after_tuple_rv(p, t) ==
  execute_with_allocator_and_dependencies(
    AllocMember(p), capture_as_dependency_tuple(t))

\* the entry point `op` called in form `form`
Derive(op, form, p, in) ==
  IF op = "after"
    THEN CASE form = "variadic" -> after(p, in)
           [] form = "lvalue"   -> after_tuple(p, in)
           [] form = "rvalue"   -> after_tuple_rv(p, in)
    ELSE CASE form = "variadic" -> rebind_after(p, in)
           [] form = "lvalue"   -> rebind_after_tuple(p, in)
           [] form = "rvalue"   -> rebind_after_tuple_rv(p, in)

\* a write of v through get_allocator() where alloc is a static member:
\* every embedded allocator changes
StoreThroughShared(ps, i, v) ==
  [j \in DOMAIN ps |-> IF ps[j].ref THEN ps[j] ELSE [ps[j] EXCEPT !.val = v]]

\* the decorators after a write of v through the reference get_allocator()
\* of decorator i returns, when alloc is an embedded value
StoreThrough(ps, i, v) ==
  IF ps[i].ref THEN ps ELSE [ps EXCEPT ![i].val = v]

\* the caller's allocators after the same write, when alloc is a reference
StoreThroughExt(ps, i, v, e) ==
  IF ps[i].ref THEN [e EXCEPT ![ps[i].loc] = v] ELSE e

(***************************************************************************)
(* The operations on decorators.                                           *)
(***************************************************************************)
NoOp == [op |-> "none", form |-> "none", src |-> 0, res |-> 0, s |-> "none",
         a |-> "none", in |-> <<>>, v |-> "none"]

Op(op, form, src, res, s, a, in, v) ==
  [op |-> op, form |-> form, src |-> src, res |-> res, s |-> s, a |-> a,
   in |-> in, v |-> v]

Room == Len(policies) < MaxPolicies

\* D(super, alloc)
Construct ==
  /\ Room
  /\ \E s \in Supers, a \in Allocators, ref \in BOOLEAN :
       /\ policies' = Append(policies,
                             execute_with_allocator(supers[s], AllocArg(a, ref, ext)))
       /\ last' = Op("construct", "none", 0, Len(policies) + 1, s, a, <<>>, "none")
  /\ UNCHANGED <<call, supers, ext>>

\* D(alloc)
ConstructFromAllocator ==
  /\ Room
  /\ \E a \in Allocators, ref \in BOOLEAN :
       /\ policies' = Append(policies, execute_with_allocator_1(AllocArg(a, ref, ext)))
       /\ last' = Op("construct_1", "none", 0, Len(policies) + 1, "none", a, <<>>, "none")
  /\ UNCHANGED <<call, supers, ext>>

\* D2(D1): the implicit copy constructor copies the base and the member
Copy ==
  /\ Room
  /\ \E i \in DOMAIN policies :
       /\ policies[i].kind = "alloc"
       /\ policies' = Append(policies, policies[i])
       /\ last' = Op("copy", "none", i, Len(policies) + 1, "none", "none", <<>>, "none")
  /\ UNCHANGED <<call, supers, ext>>

\* D.get_allocator() = v
GetAllocatorStore ==
  /\ \E i \in DOMAIN policies, v \in AllocStates :
       /\ policies[i].kind = "alloc"
       /\ policies' = StoreThrough(policies, i, v)
       /\ ext' = StoreThroughExt(policies, i, v, ext)
       /\ last' = Op("get_allocator", "none", i, i, "none", "none", <<>>, v)
  /\ UNCHANGED <<call, supers>>

\* D.after(...) in one of its three forms
After ==
  /\ Room
  /\ \E i \in DOMAIN policies, in \in DepInputs,
        form \in {"variadic", "lvalue", "rvalue"} :
       /\ policies[i].kind = "alloc"
       /\ policies' = Append(policies, Derive("after", form, policies[i], in))
       /\ last' = Op("after", form, i, Len(policies) + 1, "none", "none", in, "none")
  /\ UNCHANGED <<call, supers, ext>>

\* D.rebind_after(...) in one of its three forms
RebindAfter ==
  /\ Room
  /\ \E i \in DOMAIN policies, in \in DepInputs,
        form \in {"variadic", "lvalue", "rvalue"} :
       /\ policies[i].kind = "alloc"
       /\ policies' = Append(policies, Derive("rebind_after", form, policies[i], in))
       /\ last' = Op("rebind_after", form, i, Len(policies) + 1, "none", "none", in, "none")
  /\ UNCHANGED <<call, supers, ext>>

InitPolicy ==
  /\ call = [fn |-> "none", T |-> SignedInt, x |-> 0, ub |-> 0, ret |-> 0]
  /\ supers = InitialSupers
  /\ ext = InitialAllocators
  /\ policies = <<>>
  /\ last = NoOp

NextPolicy ==
  Construct \/ ConstructFromAllocator \/ Copy \/ GetAllocatorStore \/ After \/ RebindAfter

SpecPolicy == InitPolicy /\ [][NextPolicy]_vars

(***************************************************************************)
(* The calls: the caller picks a type, an argument and (for the build) the *)
(* outcome of the undefined shift, then calls one of the functions.        *)
(***************************************************************************)
Pending(T, x, ub) == [fn |-> "none", T |-> T, x |-> x, ub |-> ub, ret |-> 0]

Returned(fn, ret) == [call EXCEPT !.fn = fn, !.ret = ret]

CallClz ==
  /\ call.fn = "none"
  /\ call' = Returned("clz", clz(call.T, call.x, call.ub))
  /\ UNCHANGED <<supers, ext, policies, last>>

CallIsPowerOf2 ==
  /\ call.fn = "none"
  /\ call' = Returned("is_power_of_2", is_power_of_2(call.T, call.x))
  /\ UNCHANGED <<supers, ext, policies, last>>

CallLog2 ==
  /\ call.fn = "none"
  /\ call.x \in LogInputs(call.T)
  /\ call' = Returned("log2", log2(call.T, call.x, call.ub))
  /\ UNCHANGED <<supers, ext, policies, last>>

CallLog2Ri ==
  /\ call.fn = "none"
  /\ call.x \in LogInputs(call.T)
  /\ call' = Returned("log2_ri", log2_ri(call.T, call.x, call.ub))
  /\ UNCHANGED <<supers, ext, policies, last>>

CallIsOdd ==
  /\ call.fn = "none"
  /\ call' = Returned("is_odd", is_odd(call.T, call.x))
  /\ UNCHANGED <<supers, ext, policies, last>>

InitMath ==
  /\ \E T \in IntegerTypes : \E x \in Inputs(T) : \E ub \in UBShift :
       call = Pending(T, x, ub)
  /\ supers = InitialSupers
  /\ ext = InitialAllocators
  /\ policies = <<>>
  /\ last = NoOp

NextMath == CallClz \/ CallIsPowerOf2 \/ CallLog2 \/ CallLog2Ri \/ CallIsOdd

SpecMath == InitMath /\ [][NextMath]_vars

(***************************************************************************)
(* Reference notions the properties are stated with.                       *)
(***************************************************************************)
\* position of the highest set bit of x >= 1
HighBit(x) == CHOOSE i \in 0..30 : x \div (2^i) = 1

\* ceiling of the real base-2 logarithm of x >= 1
CeilLog2(x) == IF x = 1 THEN 0 ELSE HighBit(x - 1) + 1

RECURSIVE BitsSet(_, _)
BitsSet(v, n) == IF n = 0 THEN 0 ELSE Bit(v, n - 1) + BitsSet(v, n - 1)

\* number of set bits in the representation of x in type T
PopCount(T, x) == BitsSet(x, T.bits)

(***************************************************************************)
(* Properties of integer_math.h (checked under SpecMath).                  *)
(***************************************************************************)
\* C1: for every unsigned x > 0 whose highest set bit is at position i,
\* clz(x) = digits - i - 1, i.e. 2^(W - clz(x) - 1) <= x < 2^(W - clz(x)).
C1_ClzCountsLeadingZeros ==
  (call.fn = "clz" /\ ~call.T.signed /\ call.x > 0)
    => call.ret = Digits(call.T) - HighBit(call.x) - 1

\* C4: for every x >= 1 of the argument type, log2_ri(x) is the ceiling of
\* the base-2 logarithm of x.
C4_Log2RiIsCeiling ==
  (call.fn = "log2_ri" /\ call.x >= 1) => call.ret = CeilLog2(call.x)

\* C5 as stated: for every value x of the integer type, is_power_of_2(x) is
\* true iff x has exactly one bit set or x = 0.
C5_PowerOf2IffOneBitOrZero ==
  call.fn = "is_power_of_2"
    => (call.ret <=> (PopCount(call.T, call.x) = 1 \/ call.x = 0))

\* the minimum value of a signed type: only the sign bit is set
IsSignedMin(T, x) == T.signed /\ x < 0 /\ PopCount(T, x) = 1

\* C5 amended: for every value x other than the minimum of a signed type,
\* is_power_of_2(x) is true iff x has exactly one bit set or x = 0; at the
\* minimum of a signed type narrower than int it is false.
C5_PowerOf2ExceptSignedMin ==
  call.fn = "is_power_of_2"
    => IF IsSignedMin(call.T, call.x)
         THEN (call.T.bits < 32 => call.ret = FALSE)
         ELSE (call.ret <=> (PopCount(call.T, call.x) = 1 \/ call.x = 0))

\* C5 witness: is_power_of_2(0) has returned true
C5_ZeroAccepted ==
  call.fn = "is_power_of_2" /\ call.x = 0 /\ call.ret = TRUE /\ ~call.T.signed

\* C6: clz(0) returns exactly digits + 1.
C6_ClzZeroSentinel ==
  (call.fn = "clz" /\ call.x = 0) => call.ret = Digits(call.T) + 1

\* C6 witness: clz(0) has returned W + 1 for an unsigned type of width W
C6_ClzZeroReturned ==
  call.fn = "clz" /\ call.x = 0 /\ ~call.T.signed /\ call.ret = call.T.bits + 1

\* C9: for every x >= 1, log2(x) = digits - clz(x) is the floor of the base-2
\* logarithm of x, and log2(0) = -1.
C9_Log2IsFloor ==
  /\ (call.fn = "log2" /\ call.x >= 1) => call.ret = HighBit(call.x)
  /\ (call.fn = "log2" /\ call.x = 0) => call.ret = -1

(***************************************************************************)
(* Properties of execute_with_allocator (checked under SpecPolicy).        *)
(***************************************************************************)
\* same allocator (same member, same allocator seen) and same dependencies
SameAllocatorAndDeps(p, q) ==
  /\ AllocMember(p) = AllocMember(q)
  /\ AllocOf(p, ext) = AllocOf(q, ext)
  /\ p.deps = q.deps

\* the dependency sequence of p is the handles of `in`, one each, in order
CapturedInOrder(p, in) ==
  /\ Len(p.deps) = Len(in)
  /\ \A k \in DOMAIN in : p.deps[k].handle = in[k]

Forms == {"variadic", "lvalue", "rvalue"}

\* C2: the policy D0.after(h1, h2) returns has D0's allocator and the
\* dependency sequence [h1, h2], each input once and in input order.
C2_AfterKeepsAllocatorAndOrder ==
  (last.op = "after" /\ last.form = "variadic")
    => /\ AllocMember(policies[last.res]) = AllocMember(policies[last.src])
       /\ AllocOf(policies[last.res], ext) = AllocOf(policies[last.src], ext)
       /\ CapturedInOrder(policies[last.res], last.in)

\* C2 witness: after(e2, e1) has returned a policy holding [e2, e1]
C2_AfterOfTwoReturned ==
  /\ last.op = "after" /\ last.form = "variadic"
  /\ last.in = <<"e2", "e1">>
  /\ policies[last.res].deps = <<[handle |-> "e2"], [handle |-> "e1"]>>
  /\ AllocOf(policies[last.res], ext) = AllocOf(policies[last.src], ext)

\* C3: constructing D from (P, A) leaves P and A unchanged and D's allocator
\* equals A; after / rebind_after leave the policy they are called on (its
\* base and its allocator) and the caller's objects unchanged.
C3_DecorationLeavesInputsUnchanged ==
  [][ /\ last'.op = "construct"
          => /\ supers' = supers
             /\ ext' = ext
             /\ SubSeq(policies', 1, Len(policies)) = policies
             /\ AllocOf(policies'[last'.res], ext') = ext[last'.a]
             /\ policies'[last'.res].super = supers[last'.s]
      /\ last'.op \in {"after", "rebind_after"}
          => /\ supers' = supers
             /\ ext' = ext
             /\ policies'[last'.src] = policies[last'.src]
    ]_vars

\* C3 witness: a decorator with an embedded allocator has been constructed
\* from the caller's P and A2, and holds their states
C3_ConstructedFromPAndA ==
  /\ last.op = "construct" /\ last.a = "A2"
  /\ ~policies[last.res].ref
  /\ policies[last.res].val = ext["A2"]
  /\ policies[last.res].super = supers[last.s]
  /\ supers = InitialSupers

\* C7: called with the same inputs on the same policy, after and rebind_after
\* return policies with the same allocator and the same ordered dependencies.
C7_AfterEqualsRebindAfter ==
  last.op \in {"after", "rebind_after"}
    => SameAllocatorAndDeps(
         policies[last.res],
         Derive(IF last.op = "after" THEN "rebind_after" ELSE "after",
                last.form, policies[last.src], last.in))

\* C7 witness: rebind_after(e1, e2) has returned what after(e1, e2) returns
C7_RebindAfterReturned ==
  /\ last.op = "rebind_after" /\ last.form = "variadic"
  /\ last.in = <<"e1", "e2">>
  /\ policies[last.res].deps = after(policies[last.src], last.in).deps
  /\ Len(policies[last.res].deps) = 2

\* C8: the variadic call and the tuple calls (lvalue or rvalue) of after, and
\* of rebind_after, return policies with the same allocator and the same
\* ordered dependency sequence, the handles of the inputs in input order.
C8_TupleFormEqualsVariadicForm ==
  last.op \in {"after", "rebind_after"}
    => /\ \A form \in Forms :
            SameAllocatorAndDeps(policies[last.res],
                                 Derive(last.op, form, policies[last.src], last.in))
       /\ CapturedInOrder(policies[last.res], last.in)

\* C8 witness: after(tuple(e1, e2)) on an rvalue tuple has returned [e1, e2]
C8_AfterOfTupleReturned ==
  /\ last.op = "after" /\ last.form = "rvalue"
  /\ last.in = <<"e1", "e2">>
  /\ policies[last.res].deps = <<[handle |-> "e1"], [handle |-> "e2"]>>

\* C10 as stated: a write through D1.get_allocator() is seen by D1 and never
\* changes the allocator seen through any other decorator value, whatever
\* the Allocator parameter.
C10_NoSharedAllocatorInstance ==
  [][ last'.op = "get_allocator"
        => /\ AllocOf(policies'[last'.src], ext') = last'.v
           /\ \A j \in DOMAIN policies :
                j # last'.src
                  => AllocOf(policies'[j], ext') = AllocOf(policies[j], ext)
    ]_vars

\* C10 amended: a write through D1.get_allocator() is seen by D1; when the
\* Allocator parameter is not a reference type it changes the allocator seen
\* through no other decorator value; when it is a reference type the write
\* goes to the caller's allocator and is seen through exactly the decorators
\* bound to that allocator.
C10_NoSharedEmbeddedAllocator ==
  [][ last'.op = "get_allocator"
        => /\ AllocOf(policies'[last'.src], ext') = last'.v
           /\ \A j \in DOMAIN policies :
                j # last'.src
                  => IF /\ policies[last'.src].ref
                        /\ policies[j].ref
                        /\ policies[j].loc = policies[last'.src].loc
                       THEN AllocOf(policies'[j], ext') = last'.v
                       ELSE AllocOf(policies'[j], ext') = AllocOf(policies[j], ext)
    ]_vars

\* C10 witness: after a write through the embedded allocator of D1, the only
\* other decorator, a policy derived from D1, still sees the earlier state
C10_WriteNotSeenElsewhere ==
  /\ last.op = "get_allocator"
  /\ ~policies[last.src].ref
  /\ policies[last.src].val = last.v
  /\ Len(policies) = 2
  /\ \E j \in DOMAIN policies :
       /\ j # last.src
       /\ policies[j].kind = "alloc_deps"
       /\ ~policies[j].ref
       /\ policies[j].val # last.v

====
